---- MODULE Spec2Model ----
(***************************************************************************)
(* Model of eden_apfs_mount_helper (src/main.rs): a setuid-root helper     *)
(* that lists, mounts, unmounts and deletes APFS scratch volumes.          *)
(*                                                                         *)
(* Strings are sequences of one-character strings, Option<T> is a sequence *)
(* of length at most one, Result<T> is a record [ok, val, err].            *)
(* Every external command (diskutil, plutil, mount_apfs) and every system  *)
(* call that touches the world is one step of an invocation; its exit      *)
(* status is chosen by the environment.                                    *)
(***************************************************************************)
EXTENDS Naturals, Integers, Sequences, FiniteSets, TLC

\* ------------------------------------------------------------------------
\* Option / Result
\* ------------------------------------------------------------------------
None == <<>>
Some(x) == <<x>>
IsSome(o) == Len(o) = 1
Unwrap(o) == o[1]

Ok(v) == [ok |-> TRUE, val |-> v, err |-> "none"]
Err(e) == [ok |-> FALSE, val |-> None, err |-> e]

\* ------------------------------------------------------------------------
\* Bounds of the model
\* ------------------------------------------------------------------------
\* the volume manager refuses to add a volume beyond this many volumes
MaxVols == 4
\* longest string drawn as an input of the string functions
MaxLen == 2
\* longest SUDO_UID value drawn from the characters of HintChars
MaxHint == 2
\* most containers, and most volumes of a container, of a catalog drawn as an
\* input of the lookup
MaxScan == 2

\* ------------------------------------------------------------------------
\* Program constants
\* ------------------------------------------------------------------------
DISKUTIL == <<"/","u","s","r","/","s","b","i","n","/","d","i","s","k","u","t","i","l">>
MOUNT_APFS == <<"/","s","b","i","n","/","m","o","u","n","t","_","a","p","f","s">>
PLUTIL == <<"/","u","s","r","/","b","i","n","/","p","l","u","t","i","l">>
\* the literal "edenfs:" of encode_mount_point_as_volume_name and of main
EdenPrefix == <<"e","d","e","n","f","s",":">>
\* the container addVolume is told to add to
AddContainer == <<"d","i","s","k","1">>
\* the words of "-onobrowse,nodev,nosuid"
MountOptions == <<"nobrowse", "nodev", "nosuid">>

\* ------------------------------------------------------------------------
\* String helpers (std)
\* ------------------------------------------------------------------------
\* str::starts_with
StartsWith(s, prefix) ==
    /\ Len(s) >= Len(prefix)
    /\ \A i \in 1..Len(prefix) : s[i] = prefix[i]

\* Path::is_absolute on unix: the path has a root
is_absolute(path) == Len(path) > 0 /\ path[1] = "/"

\* ------------------------------------------------------------------------
\* Volume Identity Codec
\* ------------------------------------------------------------------------

\* a codec that keeps only the last character of the path
encode_last_component(mount_point) ==
    EdenPrefix \o (IF mount_point = <<>> THEN <<>> ELSE <<mount_point[Len(mount_point)]>>)

encode_mount_point_as_volume_name(mount_point) == EdenPrefix \o mount_point

\* ------------------------------------------------------------------------
\* Volume Catalog Client: lookup by label
\* ------------------------------------------------------------------------


RECURSIVE FindInVolumes_prefix(_, _)
\* a scan that takes any volume of the namespace for a match
FindInVolumes_prefix(volumes, name) ==
    IF volumes = <<>> THEN None
    ELSE IF IsSome(Head(volumes).name) /\ StartsWith(Unwrap(Head(volumes).name), EdenPrefix)
         THEN Some(Head(volumes))
    ELSE FindInVolumes_prefix(Tail(volumes), name)

RECURSIVE FindInVolumes_last(_, _)
\* a scan that starts at the end of the container
FindInVolumes_last(volumes, name) ==
    IF volumes = <<>> THEN None
    ELSE IF volumes[Len(volumes)].name = Some(name) THEN Some(volumes[Len(volumes)])
    ELSE FindInVolumes_last(SubSeq(volumes, 1, Len(volumes) - 1), name)

RECURSIVE FindInVolumes(_, _)
\* the inner loop of find_existing_volume
FindInVolumes(volumes, name) ==
    IF volumes = <<>> THEN None
    ELSE IF Head(volumes).name = Some(name) THEN Some(Head(volumes))
    ELSE FindInVolumes(Tail(volumes), name)

RECURSIVE find_existing_volume(_, _)
find_existing_volume(containers, name) ==
    IF containers = <<>> THEN None
    ELSE LET hit == FindInVolumes(Head(containers).volumes, name)
         IN  IF IsSome(hit) THEN hit
             ELSE find_existing_volume(Tail(containers), name)

\* ------------------------------------------------------------------------
\* Privilege Context
\* ------------------------------------------------------------------------
\* a process credential is [uid, gid, euid]: getuid(), getgid(), geteuid()
getuid(cr) == cr.uid
getgid(cr) == cr.gid
geteuid(cr) == cr.euid

\* A prepared Command: the program and the uid/gid the child is switched to
\* before exec (CommandExt::uid / gid), when set.
Command(path) == [path |-> path, uid |-> None, gid |-> None]

\* Both primitives return [panic, cmd]: a failed assert! unwinds before
\* Command::new is reached, so no command exists.
Panic == [panic |-> TRUE, cmd |-> None]
Built(cmd) == [panic |-> FALSE, cmd |-> Some(cmd)]


\* the primitive without its assertion on the effective uid
new_cmd_with_root_privs_unasserted(path, cr) ==
    IF ~is_absolute(path) THEN Panic
    ELSE Built(Command(path))

new_cmd_with_root_privs(path, cr) ==
    IF ~is_absolute(path) THEN Panic
    ELSE IF geteuid(cr) # 0 THEN Panic
    ELSE Built(Command(path))

new_cmd_unprivileged(path, cr) ==
    IF ~is_absolute(path) THEN Panic
    ELSE IF geteuid(cr) = 0
         THEN Built([Command(path) EXCEPT !.uid = Some(getuid(cr)),
                                          !.gid = Some(getgid(cr))])
         ELSE Built(Command(path))

\* The identity the child of a Command runs with.  A uid set on the Command
\* is applied by setuid in the child, which as root sets the real, effective
\* and saved ids; otherwise the child inherits the parent's ids.
ChildCred(cmd, cr) ==
    [uid  |-> IF IsSome(cmd.uid) THEN Unwrap(cmd.uid) ELSE cr.uid,
     euid |-> IF IsSome(cmd.uid) THEN Unwrap(cmd.uid) ELSE cr.euid,
     gid  |-> IF IsSome(cmd.gid) THEN Unwrap(cmd.gid) ELSE cr.gid]

\* ------------------------------------------------------------------------
\* get_real_uid
\* ------------------------------------------------------------------------
Digits == <<"0","1","2","3","4","5","6","7","8","9">>
IsDigit(c) == \E d \in 1..10 : Digits[d] = c
DigitVal(c) == (CHOOSE d \in 1..10 : Digits[d] = c) - 1

RECURSIVE DecimalValue(_, _)
\* the accumulation loop of u32::from_str over the digits
DecimalValue(digits, acc) ==
    IF digits = <<>> THEN acc
    ELSE DecimalValue(Tail(digits), acc * 10 + DigitVal(Head(digits)))

\* u32::MAX, in digits: the checked multiplications and additions of
\* u32::from_str fail exactly for a number above it
U32Max == <<"4","2","9","4","9","6","7","2","9","5">>

RECURSIVE StripZeros(_)
StripZeros(digits) ==
    IF digits = <<>> \/ Head(digits) # "0" THEN digits ELSE StripZeros(Tail(digits))

RECURSIVE Above(_, _)
\* of two digit strings of the same length, the first is the larger number
Above(a, b) ==
    IF a = <<>> THEN FALSE
    ELSE IF DigitVal(Head(a)) # DigitVal(Head(b)) THEN DigitVal(Head(a)) > DigitVal(Head(b))
    ELSE Above(Tail(a), Tail(b))

PosOverflow(digits) ==
    LET d == StripZeros(digits)
    IN  Len(d) > Len(U32Max) \/ (Len(d) = Len(U32Max) /\ Above(d, U32Max))

\* str::parse::<u32>(): an optional leading "+", then one or more decimal
\* digits; "-" is no sign of an unsigned type.
parse_u32(s) ==
    IF s = <<>> THEN Err("Empty")
    ELSE IF Len(s) = 1 /\ Head(s) \in {"+", "-"} THEN Err("InvalidDigit")
    ELSE LET digits == IF Head(s) = "+" THEN Tail(s) ELSE s
         IN  IF \E i \in 1..Len(digits) : ~IsDigit(digits[i])
             THEN Err("InvalidDigit")
             ELSE IF PosOverflow(digits) THEN Err("PosOverflow")
             ELSE Ok(DecimalValue(digits, 0))

\* An environment value is a sequence of characters; "\xFF" stands for a
\* byte that is no valid unicode.
IsUnicode(s) == \A i \in 1..Len(s) : s[i] # "\\xFF"

\* cr.sudo_uid is the SUDO_UID entry of the environment, None when unset
get_real_uid(cr) ==
    LET uid == getuid(cr)
    IN  IF uid # 0 THEN Ok(uid)
        ELSE IF ~IsSome(cr.sudo_uid) THEN Ok(uid)
        ELSE IF ~IsUnicode(Unwrap(cr.sudo_uid)) THEN Err("NotUnicode")
        ELSE parse_u32(Unwrap(cr.sudo_uid))

\* ------------------------------------------------------------------------
\* Volume Catalog Client: the listing and its decoding
\* ------------------------------------------------------------------------
\* A dictionary of the structured listing is a sequence of <<key, value>>.
Get(dict, key) ==
    LET I == {i \in 1..Len(dict) : dict[i][1] = key}
    IN  IF I = {} THEN None
        ELSE Some(dict[CHOOSE i \in I : \A j \in I : i <= j][2])

\* What `diskutil apfs list -plist` prints for a volume and a container
\* (the keys of the fixture of test_plist; MountPoint and Name only when
\* the volume has them).
ListingOfVolume(v) ==
    <<  <<"APFSVolumeUUID", v.device_identifier>>,
        <<"DeviceIdentifier", v.device_identifier>> >>
    \o (IF IsSome(v.mount_point) THEN << <<"MountPoint", Unwrap(v.mount_point)>> >> ELSE <<>>)
    \o (IF IsSome(v.name) THEN << <<"Name", Unwrap(v.name)>> >> ELSE <<>>)
    \o << <<"Roles", <<>> >> >>

ListingOfContainer(c) ==
    <<  <<"ContainerReference", c.container_reference>>,
        <<"Fusion", FALSE>>,
        <<"Volumes", [j \in 1..Len(c.volumes) |-> ListingOfVolume(c.volumes[j])]>> >>

ListingOf(cat) ==
    << <<"Containers", [i \in 1..Len(cat) |-> ListingOfContainer(cat[i])]>> >>

\* a decoder that fills in an empty label for a volume the listing gives none
ApfsVolume_guessed(dict) ==
    LET dev == Get(dict, "DeviceIdentifier")
        name == Get(dict, "Name")
    IN  IF ~IsSome(dev) THEN Err("missing field")
        ELSE Ok([device_identifier |-> Unwrap(dev),
                 mount_point |-> Get(dict, "MountPoint"),
                 name |-> IF IsSome(name) THEN name ELSE Some(<<>>)])

\* #[derive(Deserialize)] of ApfsVolume: DeviceIdentifier is required,
\* MountPoint and Name are Option fields, other keys are ignored
ApfsVolume(dict) ==
    LET dev == Get(dict, "DeviceIdentifier")
    IN  IF ~IsSome(dev) THEN Err("missing field")
        ELSE Ok([device_identifier |-> Unwrap(dev),
                 mount_point |-> Get(dict, "MountPoint"),
                 name |-> Get(dict, "Name")])

\* Vec<T>: every element must decode
DecodeAll(rs) ==
    IF \E i \in 1..Len(rs) : ~rs[i].ok THEN Err("missing field")
    ELSE Ok([i \in 1..Len(rs) |-> rs[i].val])

ApfsContainer(dict) ==
    LET ref == Get(dict, "ContainerReference")
        vols == Get(dict, "Volumes")
    IN  IF ~IsSome(ref) \/ ~IsSome(vols) THEN Err("missing field")
        ELSE LET vs == DecodeAll([j \in 1..Len(Unwrap(vols)) |-> ApfsVolume(Unwrap(vols)[j])])
             IN  IF ~vs.ok THEN vs
                 ELSE Ok([container_reference |-> Unwrap(ref), volumes |-> vs.val])

\* a decoder that takes a missing list of containers for an empty one
Containers_default(dict) ==
    LET cs == Get(dict, "Containers")
    IN  IF ~IsSome(cs) THEN Ok(<<>>)
        ELSE DecodeAll([i \in 1..Len(Unwrap(cs)) |-> ApfsContainer(Unwrap(cs)[i])])

Containers(dict) ==
    LET cs == Get(dict, "Containers")
    IN  IF ~IsSome(cs) THEN Err("missing field")
        ELSE DecodeAll([i \in 1..Len(Unwrap(cs)) |-> ApfsContainer(Unwrap(cs)[i])])

\* A text is [utf8, wellformed, tree]: tree is the dictionary a well-formed
\* text denotes.  plutil converts a well-formed plist to JSON of the same
\* tree and prints nothing for anything else.
Plutil(data) ==
    IF data.wellformed THEN data ELSE [utf8 |-> TRUE, wellformed |-> FALSE, tree |-> <<>>]

\* parse_apfs_plist (json-plist): plutil, then serde_json::from_str
parse_apfs_plist(data) ==
    LET json == Plutil(data)
    IN  IF ~json.wellformed THEN Err("parsing json data")
        ELSE Containers(json.tree)

\* an apfs_list that does not look at the exit status of the listing command
apfs_list_unchecked(output) ==
    IF ~output.stdout.utf8 THEN Err("FromUtf8Error")
    ELSE parse_apfs_plist(output.stdout)

\* apfs_list after the listing command has returned `output`
\* = [success, stdout]
apfs_list(output) ==
    IF ~output.success THEN Err("failed to execute diskutil list")
    ELSE IF ~output.stdout.utf8 THEN Err("FromUtf8Error")
    ELSE parse_apfs_plist(output.stdout)

\* ------------------------------------------------------------------------
\* The world the helper runs in
\* ------------------------------------------------------------------------
Procs == {"A", "B"}

PathA == <<"/","a">>
PathB == <<"/","b">>
\* where macOS mounts a volume by itself at boot
VolumesPath == <<"/","V">>
TargetPaths == {PathA, PathB}

Users == {5, 7}
GidOf(uid) == IF uid = 0 THEN 0 ELSE uid + 1
Owner(uid, gid) == [uid |-> uid, gid |-> gid]
\* root:wheel
RootOwner == Owner(0, 0)
DirOwners == {Owner(u, 9) : u \in Users}

\* the SUDO_UID values an invocation by root is started with
SudoHints == {None, Some(<<"5">>), Some(<<"x">>)}

Creds ==
    \* installed setuid root, run by a user
    {[uid |-> u, gid |-> GidOf(u), euid |-> 0, sudo_uid |-> None] : u \in Users}
    \* run by root, possibly under sudo
    \cup {[uid |-> 0, gid |-> 0, euid |-> 0, sudo_uid |-> h] : h \in SudoHints}
    \* not installed setuid, run by a user
    \cup {[uid |-> u, gid |-> GidOf(u), euid |-> u, sudo_uid |-> None] : u \in Users}

NoCred == [uid |-> 0, gid |-> 0, euid |-> 0, sudo_uid |-> None]

\* the parsed command line (Opt)
Request(op, mount_point, force, all) ==
    [op |-> op, mount_point |-> mount_point, force |-> force, all |-> all]
Requests ==
    {Request("list", <<>>, FALSE, all) : all \in BOOLEAN}
    \cup {Request("mount", p, FALSE, FALSE) : p \in TargetPaths}
    \cup {Request("unmount", p, force, FALSE) : p \in TargetPaths, force \in BOOLEAN}
    \cup {Request("delete", p, FALSE, FALSE) : p \in TargetPaths}
NoRequest == Request("none", <<>>, FALSE, FALSE)

Volume(dev, mount_point, name) ==
    [device_identifier |-> dev, mount_point |-> mount_point, name |-> name]
Container(ref, volumes) == [container_reference |-> ref, volumes |-> volumes]

VolumeSet(cat) ==
    UNION {{cat[i].volumes[j] : j \in 1..Len(cat[i].volumes)} : i \in 1..Len(cat)}
DevSet(cat) == {v.device_identifier : v \in VolumeSet(cat)}
Labeled(cat, name) == {v \in VolumeSet(cat) : v.name = Some(name)}
MountedAt(cat, path) == \E v \in VolumeSet(cat) : v.mount_point = Some(path)

\* the system volume, an unlabeled volume, and possibly a volume an earlier
\* run made for PathA: unmounted, mounted at PathA, or mounted by the
\* system under /Volumes
InitCatalogs ==
    LET sys == Volume(1, Some(<<"/">>), Some(<<"M">>))
        anon == Volume(2, None, None)
        olds == {<<>>} \cup
                {<<Volume(3, mp, Some(EdenPrefix \o PathA))>> :
                    mp \in {None, Some(PathA), Some(VolumesPath)}}
    IN  {<<Container(AddContainer, <<sys>>),
           Container(<<"d","i","s","k","2">>, <<anon>> \o old)>> : old \in olds}

\* the directory at each target path (None: no such directory) and, when a
\* volume is mounted there, the owner of the mounted root
InitFs(cat) ==
    {f \in [TargetPaths -> [dir : {None} \cup {Some(o) : o \in DirOwners},
                            mnt : {None} \cup {Some(o) : o \in DirOwners}]] :
        /\ f[PathB].dir = Some(Owner(5, 9))
        /\ \A p \in TargetPaths :
              f[p].mnt = IF MountedAt(cat, p) THEN f[p].dir ELSE None
        /\ \A p \in TargetPaths : MountedAt(cat, p) => IsSome(f[p].dir)}

\* std::fs::metadata(path): the owner, None when the path cannot be read
Metadata(f, path) == IF IsSome(f[path].mnt) THEN f[path].mnt ELSE f[path].dir

\* effects of the volume manager and of mount_apfs
SetMountPoint(cat, dev, mp) ==
    [i \in 1..Len(cat) |->
        [cat[i] EXCEPT !.volumes =
            [j \in 1..Len(cat[i].volumes) |->
                IF cat[i].volumes[j].device_identifier = dev
                THEN [cat[i].volumes[j] EXCEPT !.mount_point = mp]
                ELSE cat[i].volumes[j]]]]

RemoveVolume(cat, dev) ==
    [i \in 1..Len(cat) |->
        [cat[i] EXCEPT !.volumes =
            SelectSeq(cat[i].volumes, LAMBDA v : v.device_identifier # dev)]]

FreshDev(cat) ==
    CHOOSE d \in 1..(Cardinality(DevSet(cat)) + 1) :
        /\ d \notin DevSet(cat)
        /\ \A e \in 1..(d - 1) : e \in DevSet(cat)

AddVolume(cat, name) ==
    [i \in 1..Len(cat) |->
        IF cat[i].container_reference = AddContainer
        THEN [cat[i] EXCEPT !.volumes = Append(@, Volume(FreshDev(cat), None, Some(name)))]
        ELSE cat[i]]

CanAddVolume(cat) ==
    /\ Cardinality(VolumeSet(cat)) < MaxVols
    /\ \E i \in 1..Len(cat) : cat[i].container_reference = AddContainer

\* a path nothing is mounted at any more shows its directory again
FsFor(cat, f) ==
    [p \in TargetPaths |-> IF MountedAt(cat, p) THEN f[p] ELSE [f[p] EXCEPT !.mnt = None]]

\* what the listing command may return: its output for the catalog, a
\* non-zero exit, bytes that are no text, a truncated document, or a
\* complete document that lacks the list of containers
GoodText(cat) == [utf8 |-> TRUE, wellformed |-> TRUE, tree |-> ListingOf(cat)]
ListingOutputs(cat) ==
    {[success |-> TRUE, stdout |-> GoodText(cat)],
     [success |-> FALSE, stdout |-> GoodText(cat)],
     [success |-> TRUE, stdout |-> [utf8 |-> FALSE, wellformed |-> FALSE, tree |-> <<>>]],
     [success |-> TRUE, stdout |-> [utf8 |-> TRUE, wellformed |-> FALSE, tree |-> <<>>]],
     [success |-> TRUE, stdout |-> [utf8 |-> TRUE, wellformed |-> TRUE,
                                    tree |-> << <<"Error", <<"n", "o">> >> >>]]}

\* ------------------------------------------------------------------------
\* State
\* ------------------------------------------------------------------------
VARIABLES
    catalog,    \* the volume manager's containers and volumes
    fs,         \* owner of each target path
    pc,         \* where each invocation is in its handler
    req,        \* its command line
    cred,       \* its process credentials and SUDO_UID
    metadata,   \* mount_scratch_space_on: `metadata`
    volume,     \* mount_scratch_space_on: `volume` / `existing`
    target,     \* unmount_scratch, delete_scratch: `volume`
    log,        \* what the invocation has done so far, in order
    result,     \* how it ended
    made,       \* history: the device the last successful mount at a path used
    pure        \* a function applied on its own: its name, input and output

vars == <<catalog, fs, pc, req, cred, metadata, volume, target, log, result, made, pure>>

\* <<the function applied, its arguments, what it returned>>
NoPure == <<"none", <<>>, <<>> >>

\* a step of the helper itself
Step(verb, ok) == [verb |-> verb, exec |-> FALSE, ok |-> ok]
\* an external command run to completion: the program, the identity its
\* process ran with, its exit status, the volume its device argument was
\* taken from, and its arguments
Exec(verb, built, cr, ok, vol, args) ==
    LET cmd == Unwrap(built.cmd)
        child == ChildCred(cmd, cr)
    IN  [verb |-> verb, exec |-> TRUE, ok |-> ok, path |-> cmd.path,
         uid |-> child.uid, euid |-> child.euid, gid |-> child.gid,
         vol |-> vol, args |-> args]

\* the commands of one apfs_list call that returned `output`
ListEvents(cr, output) ==
    LET d == new_cmd_unprivileged(DISKUTIL, cr)
        u == new_cmd_unprivileged(PLUTIL, cr)
    IN  IF d.panic THEN <<>>
        ELSE <<Exec("list", d, cr, output.success, None, <<"apfs", "list", "-plist">>)>>
             \o (IF output.success /\ output.stdout.utf8 /\ ~u.panic
                 THEN <<Exec("plutil", u, cr, output.stdout.wellformed, None,
                             <<"-convert", "json", "-o", "-", "-">>)>>
                 ELSE <<>>)

ListError(r) == IF r.err = "failed to execute diskutil list" THEN "tool" ELSE "decode"

Finish(pr, res, evs) ==
    /\ pc' = [pc EXCEPT ![pr] = "done"]
    /\ result' = [result EXCEPT ![pr] = res]
    /\ log' = [log EXCEPT ![pr] = @ \o evs]

Goto(pr, next, evs) ==
    /\ pc' = [pc EXCEPT ![pr] = next]
    /\ log' = [log EXCEPT ![pr] = @ \o evs]
    /\ UNCHANGED result

Init ==
    /\ catalog \in InitCatalogs
    /\ fs \in InitFs(catalog)
    /\ pc = [pr \in Procs |-> "idle"]
    /\ req = [pr \in Procs |-> NoRequest]
    /\ cred = [pr \in Procs |-> NoCred]
    /\ metadata = [pr \in Procs |-> None]
    /\ volume = [pr \in Procs |-> None]
    /\ target = [pr \in Procs |-> None]
    /\ log = [pr \in Procs |-> <<>>]
    /\ result = [pr \in Procs |-> "none"]
    /\ made = [p \in TargetPaths |-> None]
    /\ pure = NoPure

\* main: a new invocation of the helper, dispatched on its command
FirstPc(op) ==
    CASE op = "list" -> "list"
      [] op = "mount" -> "mount_check"
      [] op = "unmount" -> "unmount_lookup"
      [] op = "delete" -> "delete_lookup"

Start(pr) ==
    /\ pc[pr] = "idle"
    /\ \E r \in Requests, c \in Creds :
          /\ req' = [req EXCEPT ![pr] = r]
          /\ cred' = [cred EXCEPT ![pr] = c]
          /\ pc' = [pc EXCEPT ![pr] = FirstPc(r.op)]
    /\ UNCHANGED <<catalog, fs, metadata, volume, target, log, result, made, pure>>

RECURSIVE EdenVolumes_labeled(_)
\* a filter that prints every volume that has a label
EdenVolumes_labeled(containers) ==
    IF containers = <<>> THEN <<>>
    ELSE SelectSeq(Head(containers).volumes, LAMBDA vol : IsSome(vol.name))
         \o EdenVolumes_labeled(Tail(containers))

RECURSIVE EdenVolumes(_)
\* main, Opt::List without --all: the volumes printed, in order
EdenVolumes(containers) ==
    IF containers = <<>> THEN <<>>
    ELSE SelectSeq(Head(containers).volumes,
                   LAMBDA vol : IsSome(vol.name) /\ StartsWith(Unwrap(vol.name), EdenPrefix))
         \o EdenVolumes(Tail(containers))

\* main, Opt::List
ListVolumes(pr) ==
    /\ pc[pr] = "list"
    /\ \E output \in ListingOutputs(catalog) :
          LET containers == apfs_list(output)
              evs == ListEvents(cred[pr], output)
              eden == EdenVolumes(containers.val)
          IN  IF new_cmd_unprivileged(DISKUTIL, cred[pr]).panic THEN Finish(pr, "panic", <<>>)
              ELSE IF ~containers.ok THEN Finish(pr, ListError(containers), evs)
              ELSE IF req[pr].all
                   THEN Finish(pr, "ok", evs \o <<[verb |-> "print", exec |-> FALSE, ok |-> TRUE,
                                                   all |-> TRUE, out |-> containers.val]>>)
                   ELSE Finish(pr, "ok", evs \o <<[verb |-> "print", exec |-> FALSE, ok |-> TRUE,
                                                   all |-> FALSE, out |-> eden]>>)
    /\ UNCHANGED <<catalog, fs, req, cred, metadata, volume, target, made, pure>>


\* the start of mount_scratch_space_on without the comparison of the owner
\* with the caller
MountCheck_unchecked(pr) ==
    /\ pc[pr] = "mount_check"
    /\ LET mount_point == req[pr].mount_point
           md == Metadata(fs, mount_point)
           my_uid == get_real_uid(cred[pr])
       IN  IF ~IsSome(md)
           THEN Finish(pr, "io", <<Step("metadata", FALSE)>>) /\ UNCHANGED metadata
           ELSE IF ~my_uid.ok
           THEN /\ Finish(pr, "config", <<Step("metadata", TRUE), Step("identity", FALSE)>>)
                /\ metadata' = [metadata EXCEPT ![pr] = md]
           ELSE /\ Goto(pr, "mount_lookup",
                        <<Step("metadata", TRUE), Step("identity", TRUE), Step("owner", TRUE)>>)
                /\ metadata' = [metadata EXCEPT ![pr] = md]
    /\ UNCHANGED <<catalog, fs, req, cred, volume, target, made, pure>>

\* mount_scratch_space_on, up to the ownership check
MountCheck(pr) ==
    /\ pc[pr] = "mount_check"
    /\ LET mount_point == req[pr].mount_point
           md == Metadata(fs, mount_point)
           my_uid == get_real_uid(cred[pr])
       IN  IF ~IsSome(md)
           THEN Finish(pr, "io", <<Step("metadata", FALSE)>>) /\ UNCHANGED metadata
           ELSE IF ~my_uid.ok
           THEN /\ Finish(pr, "config", <<Step("metadata", TRUE), Step("identity", FALSE)>>)
                /\ metadata' = [metadata EXCEPT ![pr] = md]
           ELSE IF Unwrap(md).uid # my_uid.val
           THEN /\ Finish(pr, "authorization",
                          <<Step("metadata", TRUE), Step("identity", TRUE), Step("owner", FALSE)>>)
                /\ metadata' = [metadata EXCEPT ![pr] = md]
           ELSE /\ Goto(pr, "mount_lookup",
                        <<Step("metadata", TRUE), Step("identity", TRUE), Step("owner", TRUE)>>)
                /\ metadata' = [metadata EXCEPT ![pr] = md]
    /\ UNCHANGED <<catalog, fs, req, cred, volume, target, made, pure>>


\* a lookup whose result is not used: a volume is made on every mount
MountLookup_always_new(pr) ==
    /\ pc[pr] = "mount_lookup"
    /\ \E output \in ListingOutputs(catalog) :
          LET mount_point == req[pr].mount_point
              containers == apfs_list(output)
              evs == ListEvents(cred[pr], output)
              name == encode_mount_point_as_volume_name(mount_point)
              existing == find_existing_volume(containers.val, name)
              found == [verb |-> "find", exec |-> FALSE, ok |-> IsSome(existing),
                        name |-> name, vol |-> existing]
          IN  IF ~containers.ok
              THEN Finish(pr, ListError(containers), evs)
              ELSE Goto(pr, "newvol_add", evs \o <<found>>)
    /\ UNCHANGED <<catalog, fs, req, cred, metadata, volume, target, made, pure>>

\* a match that unmounts the volume wherever it is mounted
MountLookup_any_mount(pr) ==
    /\ pc[pr] = "mount_lookup"
    /\ \E output \in ListingOutputs(catalog) :
          LET mount_point == req[pr].mount_point
              containers == apfs_list(output)
              evs == ListEvents(cred[pr], output)
              name == encode_mount_point_as_volume_name(mount_point)
              existing == find_existing_volume(containers.val, name)
              found == [verb |-> "find", exec |-> FALSE, ok |-> IsSome(existing),
                        name |-> name, vol |-> existing]
          IN  IF ~containers.ok
              THEN Finish(pr, ListError(containers), evs) /\ UNCHANGED volume
              ELSE IF IsSome(existing)
              THEN /\ volume' = [volume EXCEPT ![pr] = existing]
                   /\ IF IsSome(Unwrap(existing).mount_point)
                      THEN Goto(pr, "unmount_lookup", evs \o <<found>>)
                      ELSE Goto(pr, "mount_exec", evs \o <<found>>)
              ELSE /\ Goto(pr, "newvol_add", evs \o <<found>>)
                   /\ UNCHANGED volume
    /\ UNCHANGED <<catalog, fs, req, cred, metadata, target, made, pure>>

\* mount_scratch_space_on: apfs_list, the lookup by name and the match on it
MountLookup(pr) ==
    /\ pc[pr] = "mount_lookup"
    /\ \E output \in ListingOutputs(catalog) :
          LET mount_point == req[pr].mount_point
              containers == apfs_list(output)
              evs == ListEvents(cred[pr], output)
              name == encode_mount_point_as_volume_name(mount_point)
              existing == find_existing_volume(containers.val, name)
              found == [verb |-> "find", exec |-> FALSE, ok |-> IsSome(existing),
                        name |-> name, vol |-> existing]
          IN  IF new_cmd_unprivileged(DISKUTIL, cred[pr]).panic
              THEN Finish(pr, "panic", <<>>) /\ UNCHANGED volume
              ELSE IF ~containers.ok
              THEN Finish(pr, ListError(containers), evs) /\ UNCHANGED volume
              ELSE IF IsSome(existing)
              THEN /\ volume' = [volume EXCEPT ![pr] = existing]
                   /\ IF /\ IsSome(Unwrap(existing).mount_point)
                         /\ Unwrap(existing).mount_point # Some(mount_point)
                      THEN Goto(pr, "unmount_lookup", evs \o <<found>>)
                      ELSE Goto(pr, "mount_exec", evs \o <<found>>)
              ELSE /\ Goto(pr, "newvol_add", evs \o <<found>>)
                   /\ UNCHANGED volume
    /\ UNCHANGED <<catalog, fs, req, cred, metadata, target, made, pure>>

\* unmount_scratch is called by main with the command line's force flag and
\* by mount_scratch_space_on with force = true
\* an unmount that is always forced
UnmountForce_always(pr) == TRUE

UnmountForce(pr) == IF req[pr].op = "mount" THEN TRUE ELSE req[pr].force


\* an unmount_scratch that returns Ok(()) when it finds no volume
UnmountLookup_silent(pr) ==
    /\ pc[pr] = "unmount_lookup"
    /\ \E output \in ListingOutputs(catalog) :
          LET containers == apfs_list(output)
              evs == ListEvents(cred[pr], output)
              name == encode_mount_point_as_volume_name(req[pr].mount_point)
              found == find_existing_volume(containers.val, name)
              ev == [verb |-> "find", exec |-> FALSE, ok |-> IsSome(found),
                     name |-> name, vol |-> found]
          IN  IF ~containers.ok
              THEN Finish(pr, ListError(containers), evs) /\ UNCHANGED target
              ELSE IF IsSome(found)
              THEN /\ target' = [target EXCEPT ![pr] = found]
                   /\ Goto(pr, "unmount_exec", evs \o <<ev>>)
              ELSE /\ UNCHANGED target
                   /\ IF req[pr].op = "mount"
                      THEN Goto(pr, "mount_exec", evs \o <<ev>>)
                      ELSE Finish(pr, "ok", evs \o <<ev>>)
    /\ UNCHANGED <<catalog, fs, req, cred, metadata, volume, made, pure>>

\* unmount_scratch: apfs_list and the lookup by name
UnmountLookup(pr) ==
    /\ pc[pr] = "unmount_lookup"
    /\ \E output \in ListingOutputs(catalog) :
          LET containers == apfs_list(output)
              evs == ListEvents(cred[pr], output)
              name == encode_mount_point_as_volume_name(req[pr].mount_point)
              found == find_existing_volume(containers.val, name)
              ev == [verb |-> "find", exec |-> FALSE, ok |-> IsSome(found),
                     name |-> name, vol |-> found]
          IN  IF new_cmd_unprivileged(DISKUTIL, cred[pr]).panic
              THEN Finish(pr, "panic", <<>>) /\ UNCHANGED target
              ELSE IF ~containers.ok
              THEN Finish(pr, ListError(containers), evs) /\ UNCHANGED target
              ELSE IF IsSome(found)
              THEN /\ target' = [target EXCEPT ![pr] = found]
                   /\ Goto(pr, "unmount_exec", evs \o <<ev>>)
              ELSE Finish(pr, "notfound", evs \o <<ev>>) /\ UNCHANGED target
    /\ UNCHANGED <<catalog, fs, req, cred, metadata, volume, made, pure>>

\* unmount_scratch: diskutil unmount [force] <device>
UnmountExec(pr) ==
    /\ pc[pr] = "unmount_exec"
    /\ LET cmd == new_cmd_unprivileged(DISKUTIL, cred[pr])
           dev == Unwrap(target[pr]).device_identifier
           args == [verb |-> "unmount", force |-> UnmountForce(pr), dev |-> dev]
       IN  IF cmd.panic THEN Finish(pr, "panic", <<>>) /\ UNCHANGED <<catalog, fs>>
           ELSE \E ok \in {s \in BOOLEAN : s => dev \in DevSet(catalog)} :
                  LET ev == Exec("unmount", cmd, cred[pr], ok, target[pr], args)
                  IN  IF ~ok THEN Finish(pr, "tool", <<ev>>) /\ UNCHANGED <<catalog, fs>>
                      ELSE /\ catalog' = SetMountPoint(catalog, dev, None)
                           /\ fs' = FsFor(catalog', fs)
                           /\ IF req[pr].op = "mount"
                              THEN Goto(pr, "mount_exec", <<ev>>)
                              ELSE Finish(pr, "ok", <<ev>>)
    /\ UNCHANGED <<req, cred, metadata, volume, target, made, pure>>

\* a make_new_volume that does not look at the exit status of addVolume
MakeNewVolume_unchecked(pr) ==
    /\ pc[pr] = "newvol_add"
    /\ LET cmd == new_cmd_unprivileged(DISKUTIL, cred[pr])
           name == encode_mount_point_as_volume_name(req[pr].mount_point)
           args == [verb |-> "addVolume", container |-> AddContainer, fs |-> "apfs",
                    name |-> name, nomount |-> TRUE]
       IN  \E outcome \in {"failed", "lost"}
                           \cup (IF CanAddVolume(catalog) THEN {"added"} ELSE {}) :
              LET ev == Exec("addVolume", cmd, cred[pr], outcome # "failed", None, args)
              IN  /\ catalog' = IF outcome = "added" THEN AddVolume(catalog, name)
                                 ELSE catalog
                  /\ Goto(pr, "newvol_find", <<ev>>)
    /\ UNCHANGED <<fs, req, cred, metadata, volume, target, made, pure>>

\* make_new_volume: diskutil apfs addVolume disk1 apfs <name> -nomount.
\* A zero exit either added the volume or (`lost`) left nothing to be found.
MakeNewVolume(pr) ==
    /\ pc[pr] = "newvol_add"
    /\ LET cmd == new_cmd_unprivileged(DISKUTIL, cred[pr])
           name == encode_mount_point_as_volume_name(req[pr].mount_point)
           args == [verb |-> "addVolume", container |-> AddContainer, fs |-> "apfs",
                    name |-> name, nomount |-> TRUE]
       IN  IF cmd.panic THEN Finish(pr, "panic", <<>>) /\ UNCHANGED catalog
           ELSE \E outcome \in {"failed", "lost"}
                               \cup (IF CanAddVolume(catalog) THEN {"added"} ELSE {}) :
                  LET ev == Exec("addVolume", cmd, cred[pr], outcome # "failed", None, args)
                  IN  IF outcome = "failed"
                      THEN Finish(pr, "tool", <<ev>>) /\ UNCHANGED catalog
                      ELSE /\ catalog' = IF outcome = "added" THEN AddVolume(catalog, name)
                                         ELSE catalog
                           /\ Goto(pr, "newvol_find", <<ev>>)
    /\ UNCHANGED <<fs, req, cred, metadata, volume, target, made, pure>>

\* make_new_volume: apfs_list and the lookup of the new volume
MakeNewVolumeFind(pr) ==
    /\ pc[pr] = "newvol_find"
    /\ \E output \in ListingOutputs(catalog) :
          LET containers == apfs_list(output)
              evs == ListEvents(cred[pr], output)
              name == encode_mount_point_as_volume_name(req[pr].mount_point)
              found == find_existing_volume(containers.val, name)
              ev == [verb |-> "find", exec |-> FALSE, ok |-> IsSome(found),
                     name |-> name, vol |-> found]
          IN  IF new_cmd_unprivileged(DISKUTIL, cred[pr]).panic
              THEN Finish(pr, "panic", <<>>) /\ UNCHANGED volume
              ELSE IF ~containers.ok
              THEN Finish(pr, ListError(containers), evs) /\ UNCHANGED volume
              ELSE IF IsSome(found)
              THEN /\ volume' = [volume EXCEPT ![pr] = found]
                   /\ Goto(pr, "mount_exec", evs \o <<ev>>)
              ELSE Finish(pr, "notfound", evs \o <<ev>>) /\ UNCHANGED volume
    /\ UNCHANGED <<catalog, fs, req, cred, metadata, target, made, pure>>


\* a mount step that does not look at the exit status of mount_apfs
MountExec_unchecked(pr) ==
    /\ pc[pr] = "mount_exec"
    /\ LET mount_point == req[pr].mount_point
           cmd == new_cmd_with_root_privs(MOUNT_APFS, cred[pr])
           dev == Unwrap(volume[pr]).device_identifier
           args == [opts |-> MountOptions, u |-> Unwrap(metadata[pr]).uid,
                    g |-> Unwrap(metadata[pr]).gid, dev |-> dev, target |-> mount_point]
       IN  IF cmd.panic THEN Finish(pr, "panic", <<>>) /\ UNCHANGED <<catalog, fs>>
           ELSE \E ok \in {s \in BOOLEAN : s => dev \in DevSet(catalog)} :
                  LET ev == Exec("mount_apfs", cmd, cred[pr], ok, volume[pr], args)
                  IN  /\ catalog' = IF ok THEN SetMountPoint(catalog, dev, Some(mount_point))
                                    ELSE catalog
                      /\ fs' = IF ok THEN [FsFor(catalog', fs) EXCEPT
                                              ![mount_point].mnt = Some(RootOwner)]
                               ELSE fs
                      /\ Goto(pr, "mount_chown", <<ev>>)
    /\ UNCHANGED <<req, cred, metadata, volume, target, made, pure>>

\* mount_scratch_space_on: mount_apfs with root privs.  A mount that
\* succeeded shows the volume at the mount point, owned by root:wheel.
MountExec(pr) ==
    /\ pc[pr] = "mount_exec"
    /\ LET mount_point == req[pr].mount_point
           cmd == new_cmd_with_root_privs(MOUNT_APFS, cred[pr])
           dev == Unwrap(volume[pr]).device_identifier
           args == [opts |-> MountOptions, u |-> Unwrap(metadata[pr]).uid,
                    g |-> Unwrap(metadata[pr]).gid, dev |-> dev, target |-> mount_point]
       IN  IF cmd.panic THEN Finish(pr, "panic", <<>>) /\ UNCHANGED <<catalog, fs>>
           ELSE \E ok \in {s \in BOOLEAN : s => dev \in DevSet(catalog)} :
                  LET ev == Exec("mount_apfs", cmd, cred[pr], ok, volume[pr], args)
                  IN  IF ~ok THEN Finish(pr, "tool", <<ev>>) /\ UNCHANGED <<catalog, fs>>
                      ELSE /\ catalog' = SetMountPoint(catalog, dev, Some(mount_point))
                           /\ fs' = [FsFor(catalog', fs) EXCEPT
                                        ![mount_point].mnt = Some(RootOwner)]
                           /\ Goto(pr, "mount_chown", <<ev>>)
    /\ UNCHANGED <<req, cred, metadata, volume, target, made, pure>>

\* a chown step that reads the owner of the mount point again
MountChown_reread(pr) ==
    /\ pc[pr] = "mount_chown"
    /\ LET mount_point == req[pr].mount_point
           md == Unwrap(Metadata(fs, mount_point))
       IN  \E rc \in {0, -1} :
              LET ev == [verb |-> "chown", exec |-> FALSE, ok |-> rc = 0,
                         path |-> mount_point, uid |-> md.uid, gid |-> md.gid]
              IN  IF rc # 0 THEN Finish(pr, "io", <<ev>>) /\ UNCHANGED fs
                  ELSE /\ fs' = [fs EXCEPT ![mount_point] =
                                    IF IsSome(@.mnt) THEN [@ EXCEPT !.mnt = Some(Owner(md.uid, md.gid))]
                                    ELSE [@ EXCEPT !.dir = Some(Owner(md.uid, md.gid))]]
                       /\ Finish(pr, "ok", <<ev>>)
    /\ made' = IF result'[pr] = "ok"
               THEN [made EXCEPT ![req[pr].mount_point] =
                        Some(Unwrap(volume[pr]).device_identifier)]
               ELSE made
    /\ UNCHANGED <<catalog, req, cred, metadata, volume, target, pure>>

\* a chown step that takes the mount back when the chown fails
MountChown_rollback(pr) ==
    /\ pc[pr] = "mount_chown"
    /\ LET mount_point == req[pr].mount_point
           md == Unwrap(metadata[pr])
       IN  \E rc \in {0, -1} :
              LET ev == [verb |-> "chown", exec |-> FALSE, ok |-> rc = 0,
                         path |-> mount_point, uid |-> md.uid, gid |-> md.gid]
              IN  IF rc # 0
                  THEN /\ catalog' = SetMountPoint(catalog,
                                          Unwrap(volume[pr]).device_identifier, None)
                       /\ fs' = FsFor(catalog', fs)
                       /\ Finish(pr, "io", <<ev>>)
                  ELSE /\ fs' = [fs EXCEPT ![mount_point] =
                                    IF IsSome(@.mnt) THEN [@ EXCEPT !.mnt = Some(Owner(md.uid, md.gid))]
                                    ELSE [@ EXCEPT !.dir = Some(Owner(md.uid, md.gid))]]
                       /\ catalog' = catalog
                       /\ Finish(pr, "ok", <<ev>>)
    /\ made' = IF result'[pr] = "ok"
               THEN [made EXCEPT ![req[pr].mount_point] =
                        Some(Unwrap(volume[pr]).device_identifier)]
               ELSE made
    /\ UNCHANGED <<req, cred, metadata, volume, target, pure>>

\* mount_scratch_space_on: libc::chown of the mount point to the owner read
\* at the start (the paths of the model hold no NUL, so CString::new succeeds)
MountChown(pr) ==
    /\ pc[pr] = "mount_chown"
    /\ LET mount_point == req[pr].mount_point
           md == Unwrap(metadata[pr])
       IN  \E rc \in {0, -1} :
              LET ev == [verb |-> "chown", exec |-> FALSE, ok |-> rc = 0,
                         path |-> mount_point, uid |-> md.uid, gid |-> md.gid]
              IN  IF rc # 0 THEN Finish(pr, "io", <<ev>>) /\ UNCHANGED fs
                  ELSE /\ fs' = [fs EXCEPT ![mount_point] =
                                    IF IsSome(@.mnt) THEN [@ EXCEPT !.mnt = Some(Owner(md.uid, md.gid))]
                                    ELSE [@ EXCEPT !.dir = Some(Owner(md.uid, md.gid))]]
                       /\ Finish(pr, "ok", <<ev>>)
    /\ made' = IF result'[pr] = "ok"
               THEN [made EXCEPT ![req[pr].mount_point] =
                        Some(Unwrap(volume[pr]).device_identifier)]
               ELSE made
    /\ UNCHANGED <<catalog, req, cred, metadata, volume, target, pure>>

\* delete_scratch: apfs_list and the lookup by name
DeleteLookup(pr) ==
    /\ pc[pr] = "delete_lookup"
    /\ \E output \in ListingOutputs(catalog) :
          LET containers == apfs_list(output)
              evs == ListEvents(cred[pr], output)
              name == encode_mount_point_as_volume_name(req[pr].mount_point)
              found == find_existing_volume(containers.val, name)
              ev == [verb |-> "find", exec |-> FALSE, ok |-> IsSome(found),
                     name |-> name, vol |-> found]
          IN  IF new_cmd_unprivileged(DISKUTIL, cred[pr]).panic
              THEN Finish(pr, "panic", <<>>) /\ UNCHANGED target
              ELSE IF ~containers.ok
              THEN Finish(pr, ListError(containers), evs) /\ UNCHANGED target
              ELSE IF IsSome(found)
              THEN /\ target' = [target EXCEPT ![pr] = found]
                   /\ Goto(pr, "delete_exec", evs \o <<ev>>)
              ELSE Finish(pr, "notfound", evs \o <<ev>>) /\ UNCHANGED target
    /\ UNCHANGED <<catalog, fs, req, cred, metadata, volume, made, pure>>

\* delete_scratch: diskutil apfs deleteVolume <device>, which unmounts too
DeleteExec(pr) ==
    /\ pc[pr] = "delete_exec"
    /\ LET cmd == new_cmd_unprivileged(DISKUTIL, cred[pr])
           dev == Unwrap(target[pr]).device_identifier
           args == [verb |-> "deleteVolume", dev |-> dev]
       IN  IF cmd.panic THEN Finish(pr, "panic", <<>>) /\ UNCHANGED <<catalog, fs>>
           ELSE \E ok \in {s \in BOOLEAN : s => dev \in DevSet(catalog)} :
                  LET ev == Exec("deleteVolume", cmd, cred[pr], ok, target[pr], args)
                  IN  IF ~ok THEN Finish(pr, "tool", <<ev>>) /\ UNCHANGED <<catalog, fs>>
                      ELSE /\ catalog' = RemoveVolume(catalog, dev)
                           /\ fs' = FsFor(catalog', fs)
                           /\ Finish(pr, "ok", <<ev>>)
    /\ made' = [p \in TargetPaths |->
                IF made[p] # None /\ Unwrap(made[p]) \notin DevSet(catalog')
                THEN None ELSE made[p]]
    /\ UNCHANGED <<req, cred, metadata, volume, target, pure>>

\* the process exits: nothing of an invocation outlives it
Exit(pr) ==
    /\ pc[pr] = "done"
    /\ pc' = [pc EXCEPT ![pr] = "idle"]
    /\ req' = [req EXCEPT ![pr] = NoRequest]
    /\ cred' = [cred EXCEPT ![pr] = NoCred]
    /\ metadata' = [metadata EXCEPT ![pr] = None]
    /\ volume' = [volume EXCEPT ![pr] = None]
    /\ target' = [target EXCEPT ![pr] = None]
    /\ log' = [log EXCEPT ![pr] = <<>>]
    /\ result' = [result EXCEPT ![pr] = "none"]
    /\ UNCHANGED <<catalog, fs, made, pure>>

\* ------------------------------------------------------------------------
\* One invocation at a time: the helper is run again only after it has
\* exited.
\* ------------------------------------------------------------------------
Main == "A"

Next ==
    \/ Start(Main)
    \/ ListVolumes(Main)
    \/ MountCheck(Main)
    \/ MountLookup(Main)
    \/ UnmountLookup(Main)
    \/ UnmountExec(Main)
    \/ MakeNewVolume(Main)
    \/ MakeNewVolumeFind(Main)
    \/ MountExec(Main)
    \/ MountChown(Main)
    \/ DeleteLookup(Main)
    \/ DeleteExec(Main)
    \/ Exit(Main)

Spec == Init /\ [][Next]_vars

\* ------------------------------------------------------------------------
\* Two invocations at once: two users' shells, or one script, run
\* `mount` while another `mount` is running.  Nothing in the helper
\* makes one wait for the other, so their steps interleave freely; each
\* process is followed through one invocation.
\* ------------------------------------------------------------------------
StartMount(pr) ==
    /\ pc[pr] = "idle"
    /\ \E p \in TargetPaths, c \in Creds :
          /\ req' = [req EXCEPT ![pr] = Request("mount", p, FALSE, FALSE)]
          /\ cred' = [cred EXCEPT ![pr] = c]
          /\ pc' = [pc EXCEPT ![pr] = FirstPc("mount")]
    /\ UNCHANGED <<catalog, fs, metadata, volume, target, log, result, made, pure>>

NextRace ==
    \E pr \in Procs :
        \/ StartMount(pr)
        \/ MountCheck(pr)
        \/ MountLookup(pr)
        \/ UnmountLookup(pr)
        \/ UnmountExec(pr)
        \/ MakeNewVolume(pr)
        \/ MakeNewVolumeFind(pr)
        \/ MountExec(pr)
        \/ MountChown(pr)

SpecRace == Init /\ [][NextRace]_vars

\* ------------------------------------------------------------------------
\* The functions on their own: each action applies one of them to inputs
\* drawn from bounded sets and records the input and the output.
\* ------------------------------------------------------------------------
Chars == {"/", "a", "b"}
Strings == UNION {[1..n -> Chars] : n \in 0..MaxLen}

LabelA == <<"e","d","e","n","f","s",":","/","a">>
LabelM == <<"M">>
NameChoices == {None, Some(LabelA), Some(LabelM)}
VolumeNames == UNION {[1..m -> NameChoices] : m \in 0..MaxScan}
CatalogNames == UNION {[1..n -> VolumeNames] : n \in 0..MaxScan}
\* the catalog with the given names; every volume has its own device
CatalogOf(names) ==
    [i \in 1..Len(names) |->
        Container(<<"d", "k">>,
                  [j \in 1..Len(names[i]) |->
                      Volume(i * (MaxScan + 2) + j, None, names[i][j])])]

InitPure ==
    /\ catalog = <<>>
    /\ fs = [p \in TargetPaths |-> [dir |-> None, mnt |-> None]]
    /\ pc = [pr \in Procs |-> "idle"]
    /\ req = [pr \in Procs |-> NoRequest]
    /\ cred = [pr \in Procs |-> NoCred]
    /\ metadata = [pr \in Procs |-> None]
    /\ volume = [pr \in Procs |-> None]
    /\ target = [pr \in Procs |-> None]
    /\ log = [pr \in Procs |-> <<>>]
    /\ result = [pr \in Procs |-> "none"]
    /\ made = [p \in TargetPaths |-> None]
    /\ pure = NoPure

machine == <<catalog, fs, pc, req, cred, metadata, volume, target, log, result, made>>

ApplyEncode ==
    /\ pure = NoPure
    /\ \E p1 \in Strings, p2 \in Strings :
          pure' = <<"encode", <<p1, p2>>,
                   <<encode_mount_point_as_volume_name(p1),
                                encode_mount_point_as_volume_name(p2)>>>>
    /\ UNCHANGED machine

ApplyFind ==
    /\ pure = NoPure
    /\ \E names \in CatalogNames, name \in {LabelA, LabelM} :
          pure' = <<"find", <<CatalogOf(names), name>>,
                   find_existing_volume(CatalogOf(names), name)>>
    /\ UNCHANGED machine

ApplyRootCmd ==
    /\ pure = NoPure
    /\ \E path \in Strings, cr \in Creds :
          pure' = <<"new_cmd_with_root_privs", <<path, cr>>,
                   new_cmd_with_root_privs(path, cr)>>
    /\ UNCHANGED machine

ApplyUnprivCmd ==
    /\ pure = NoPure
    /\ \E path \in Strings, cr \in Creds :
          pure' = <<"new_cmd_unprivileged", <<path, cr>>,
                   new_cmd_unprivileged(path, cr)>>
    /\ UNCHANGED machine

\* where the volumes of a drawn catalog are mounted: nowhere, all of them, or
\* the first volume of each container only
MountPatterns == {"none", "all", "first"}
MountPointOf(pattern, i, j) ==
    IF pattern = "all" THEN Some(<<"/", Digits[i + 1], Digits[j + 1]>>)
    ELSE IF pattern = "first" /\ j = 1 THEN Some(VolumesPath)
    ELSE None
\* the catalog with the given names and mount points; every container has
\* its own reference and every volume its own device
CatalogMounted(names, pattern) ==
    [i \in 1..Len(names) |->
        Container(<<"d", "k", Digits[i + 1]>>,
                  [j \in 1..Len(names[i]) |->
                      Volume(i * (MaxScan + 2) + j, MountPointOf(pattern, i, j), names[i][j])])]

\* parse_apfs_plist applied to the listing diskutil prints for a catalog
ApplyDecode ==
    /\ pure = NoPure
    /\ \E names \in CatalogNames, pattern \in MountPatterns :
          LET cat == CatalogMounted(names, pattern)
          IN  pure' = <<"parse_apfs_plist", <<cat, GoodText(cat)>>,
                       parse_apfs_plist(GoodText(cat))>>
    /\ UNCHANGED machine

\* apfs_list applied to what the listing command returned
ApplyList ==
    /\ pure = NoPure
    /\ \E cat \in InitCatalogs \cup {<<>>} : \E output \in ListingOutputs(cat) :
          pure' = <<"apfs_list", <<output>>, apfs_list(output)>>
    /\ UNCHANGED machine

\* the values of SUDO_UID get_real_uid is applied to: every short string of
\* digits, signs, a letter and a byte that is no unicode, and numbers around
\* the largest u32.  The numbers that parse stay below 2^31.
HintChars == {"0", "5", "+", "-", "x", "\\xFF"}
LongHints ==
    {<<"2","1","4","7","4","8","3","6","4","7">>,
     <<"4","2","9","4","9","6","7","2","9","6">>,
     <<"0","0","0","0","0","0","0","0","0","0","5">>,
     <<"9","9","9","9","9","9","9","9","9","9","9">>}
Hints == {None} \cup {Some(s) : s \in LongHints \cup UNION {[1..n -> HintChars] : n \in 0..MaxHint}}

ApplyRealUid ==
    /\ pure = NoPure
    /\ \E uid \in {0} \cup Users, euid \in {0, 5}, hint \in Hints :
          LET cr == [uid |-> uid, gid |-> GidOf(uid), euid |-> euid, sudo_uid |-> hint]
          IN  pure' = <<"get_real_uid", <<cr>>, get_real_uid(cr)>>
    /\ UNCHANGED machine

NextPure ==
    \/ ApplyDecode
    \/ ApplyEncode
    \/ ApplyFind
    \/ ApplyList
    \/ ApplyRealUid
    \/ ApplyRootCmd
    \/ ApplyUnprivCmd

SpecPure == InitPure /\ [][NextPure]_vars

\* ------------------------------------------------------------------------
\* Properties
\* ------------------------------------------------------------------------
\* the label of a path, spelled out
LabelOf(path) == <<"e","d","e","n","f","s",":">> \o path

\* C7: the privileged-command primitive called with an effective uid other
\* than 0 panics and builds no command, and either primitive called with a
\* path that is not absolute panics and builds no command.
C7_PrimitivesAssert ==
    LET path == pure[2][1]
        cr == pure[2][2]
    IN  /\ (pure[1] = "new_cmd_with_root_privs" /\ cr.euid # 0)
              => (pure[3].panic /\ pure[3].cmd = None)
        /\ (/\ pure[1] \in {"new_cmd_with_root_privs", "new_cmd_unprivileged"}
            /\ (path = <<>> \/ path[1] # "/"))
              => (pure[3].panic /\ pure[3].cmd = None)

\* an absolute program path, an effective uid that is not root: the
\* privileged primitive panicked
C7_Witness ==
    /\ pure[1] = "new_cmd_with_root_privs"
    /\ pure[2][1] = <<"/", "a">>
    /\ pure[2][2].euid = 5
    /\ pure[3].panic

\* C9: encode(p) is "edenfs:" followed by p verbatim, equal paths give equal
\* labels and different paths give different labels.
C9_EncodeInjective ==
    pure[1] = "encode" =>
        LET p1 == pure[2][1]
            p2 == pure[2][2]
            l1 == pure[3][1]
            l2 == pure[3][2]
            Verbatim(p, l) ==
                /\ Len(l) = 7 + Len(p)
                /\ SubSeq(l, 1, 7) = <<"e","d","e","n","f","s",":">>
                /\ \A i \in 1..Len(p) : l[7 + i] = p[i]
        IN  /\ Verbatim(p1, l1)
            /\ Verbatim(p2, l2)
            /\ (p1 = p2) = (l1 = l2)

\* two different paths of the same length that end alike were encoded
C9_Witness ==
    /\ pure[1] = "encode"
    /\ pure[2] = << <<"/", "a">>, <<"b", "a">> >>
    /\ pure[3][1] # pure[3][2]

\* C10: the lookup returns the volume labeled `name` that comes first when
\* the containers are scanned in order and the volumes of each container in
\* order, and none exactly when no volume carries the label.
C10_FindFirstMatch ==
    pure[1] = "find" =>
        LET containers == pure[2][1]
            name == pure[2][2]
            Matches == {m \in (1..Len(containers)) \X (1..MaxScan + 1) :
                           /\ m[2] <= Len(containers[m[1]].volumes)
                           /\ Len(containers[m[1]].volumes[m[2]].name) = 1
                           /\ containers[m[1]].volumes[m[2]].name[1] = name}
            Earlier(m, n) == m[1] < n[1] \/ (m[1] = n[1] /\ m[2] <= n[2])
        IN  IF Matches = {} THEN pure[3] = None
            ELSE \E m \in Matches :
                    /\ \A n \in Matches : Earlier(m, n)
                    /\ pure[3] = Some(containers[m[1]].volumes[m[2]])

\* three volumes carry the label, after a volume with another label; the
\* first of the three was returned
C10_Witness ==
    /\ pure[1] = "find"
    /\ pure[2][2] = LabelA
    /\ Len(pure[2][1]) = 2
    /\ Len(pure[2][1][1].volumes) = 2
    /\ pure[2][1][1].volumes[1].name = Some(LabelM)
    /\ pure[2][1][1].volumes[2].name = Some(LabelA)
    /\ Len(pure[2][1][2].volumes) = 2
    /\ pure[2][1][2].volumes[1].name = Some(LabelA)
    /\ pure[2][1][2].volumes[2].name = Some(LabelA)
    /\ pure[3] = Some(pure[2][1][1].volumes[2])

\* helpers over the record of an invocation
Mutating == {"addVolume", "unmount", "deleteVolume", "mount_apfs"}
Has(l, verb) == \E i \in 1..Len(l) : l[i].verb = verb
NoExec(l) == \A i \in 1..Len(l) : ~l[i].exec
\* the event a step has just added, if it added any
Added(pr) == IF Len(log'[pr]) > Len(log[pr]) THEN <<log'[pr][Len(log'[pr])]>> ELSE <<>>
\* the path is there and its owner is not the resolved real identity
NotOwnedByCaller(pr) ==
    LET md == Metadata(fs, req[pr].mount_point)
        id == get_real_uid(cred[pr])
    IN  IsSome(md) /\ id.ok /\ Unwrap(md).uid # id.val

\* C1: a mount of a path whose owner is not the resolved real identity ends
\* with an authorization error at its first step, has run no external
\* command, and leaves the catalog and the mounts as they were.
C1_Refusal(pr) ==
    (pc[pr] = "mount_check" /\ NotOwnedByCaller(pr))
        => /\ pc'[pr] = "done"
           /\ result'[pr] = "authorization"
           /\ NoExec(log'[pr])
           /\ catalog' = catalog
           /\ fs' = fs

C1_MountRefused ==
    /\ [](\A pr \in Procs : result[pr] = "authorization" => NoExec(log[pr]))
    /\ [][\A pr \in Procs : C1_Refusal(pr)]_vars

\* a setuid-root run by user 7 was refused the mount of a path of user 5
C1_Witness ==
    /\ req[Main].op = "mount"
    /\ cred[Main].uid = 7
    /\ cred[Main].euid = 0
    /\ result[Main] = "authorization"
    /\ Unwrap(metadata[Main]).uid = 5

\* C2: the steps of a mount come in the order metadata, identity, ownership
\* check, catalog work (queries, lookups, forced unmount or volume creation),
\* privileged mount, chown; no command runs before the ownership check has
\* succeeded, the privileged mount follows a lookup that found the volume
\* labeled with the path's label, and the chown follows a successful mount.
Phase(verb) ==
    CASE verb = "metadata" -> 1
      [] verb = "identity" -> 2
      [] verb = "owner" -> 3
      [] verb \in {"list", "plutil", "find", "unmount", "addVolume"} -> 4
      [] verb = "mount_apfs" -> 5
      [] verb = "chown" -> 6

C2_MountOrder ==
    \A pr \in Procs : req[pr].op = "mount" =>
        LET l == log[pr]
            Before(i, verb) == \E k \in 1..(i - 1) : l[k].verb = verb /\ l[k].ok
        IN  /\ \A i, j \in 1..Len(l) : i < j =>
                  /\ Phase(l[i].verb) <= Phase(l[j].verb)
                  /\ Phase(l[i].verb) = Phase(l[j].verb) => Phase(l[i].verb) = 4
            /\ \A i \in 1..Len(l) :
                  /\ l[i].verb = "identity" => Before(i, "metadata")
                  /\ l[i].verb = "owner" => Before(i, "identity")
                  /\ l[i].exec => Before(i, "owner")
                  /\ l[i].verb = "find" => Before(i, "list") /\ Before(i, "plutil")
                  /\ l[i].verb \in {"unmount", "addVolume"} => Has(SubSeq(l, 1, i - 1), "find")
                  /\ l[i].verb = "mount_apfs" =>
                        \E k \in 1..(i - 1) :
                            /\ l[k].verb = "find" /\ l[k].ok
                            /\ l[k].vol = l[i].vol
                            /\ Unwrap(l[k].vol).name = Some(LabelOf(req[pr].mount_point))
                  /\ l[i].verb = "chown" => Before(i, "mount_apfs")

\* a mount that made a volume, mounted it and changed the owner
C2_Witness ==
    /\ req[Main].op = "mount"
    /\ result[Main] = "ok"
    /\ Has(log[Main], "addVolume")
    /\ log[Main][Len(log[Main])].verb = "chown"

\* C3: of the commands an invocation runs, only mount_apfs runs as root;
\* installed setuid root and run by a user, or run by root under sudo for a
\* user, every other command runs with the uid of that user.
UnderSudo(cr) ==
    /\ cr.uid = 0
    /\ IsSome(cr.sudo_uid)
    /\ get_real_uid(cr).ok
    /\ get_real_uid(cr).val # 0
SetuidRoot(cr) == cr.uid # 0 /\ cr.euid = 0

C3_OnlyMountIsRoot ==
    \A pr \in Procs : (SetuidRoot(cred[pr]) \/ UnderSudo(cred[pr])) =>
        \A i \in 1..Len(log[pr]) :
            LET e == log[pr][i]
            IN  (e.exec /\ e.verb # "mount_apfs") =>
                    /\ e.euid # 0
                    /\ e.uid = get_real_uid(cred[pr]).val

\* C4: unmount and delete issue their command only for a path the caller
\* owns: a user who is not root never gets a volume unmounted or deleted
\* whose path belongs to another user.
C4_OnlyOwnPaths ==
    [][\A pr \in Procs :
          (/\ req[pr].op \in {"unmount", "delete"}
           /\ cred[pr].uid # 0
           /\ Added(pr) # <<>>
           /\ Added(pr)[1].verb \in {"unmount", "deleteVolume"}
           /\ Added(pr)[1].ok)
              => ~NotOwnedByCaller(pr)]_vars

\* C5: the device handed to unmount, deleteVolume or mount_apfs is that of a
\* volume of the catalog whose label is exactly the label of the target path;
\* no unlabeled volume and no volume with another label is handed to them.
DeviceVerbs == {"unmount", "deleteVolume", "mount_apfs"}

C5_Event(pr, e) ==
    (e.exec /\ e.verb \in DeviceVerbs)
        => /\ IsSome(e.vol)
           /\ e.args.dev = Unwrap(e.vol).device_identifier
           /\ Len(Unwrap(e.vol).name) = 1
           /\ Unwrap(e.vol).name[1] = LabelOf(req[pr].mount_point)
           /\ SubSeq(Unwrap(e.vol).name[1], 1, 7) = <<"e","d","e","n","f","s",":">>

C5_DeviceOfLabel ==
    /\ [](\A pr \in Procs : \A i \in 1..Len(log[pr]) : C5_Event(pr, log[pr][i]))
    /\ [][\A pr \in Procs :
            (Added(pr) # <<>> /\ Added(pr)[1].exec /\ Added(pr)[1].verb \in DeviceVerbs)
                => /\ \E v \in VolumeSet(catalog) :
                        v.device_identifier = Added(pr)[1].args.dev
                   /\ \A v \in VolumeSet(catalog) :
                        v.device_identifier = Added(pr)[1].args.dev
                            => v.name = Some(LabelOf(req[pr].mount_point))]_vars

\* with the volume of PathA in the catalog, a mount of PathB made a volume of
\* its own and mounted that one
C5_Witness ==
    /\ req[Main].op = "mount"
    /\ req[Main].mount_point = PathB
    /\ Labeled(catalog, LabelOf(PathA)) # {}
    /\ \E v \in VolumeSet(catalog) : v.name = None
    /\ Has(log[Main], "mount_apfs")
    /\ Unwrap(volume[Main]).name = Some(LabelOf(PathB))

\* C6: an unmount or delete of a path whose label no volume of the catalog
\* carries fails, with the not-found error once the catalog query has
\* succeeded, having run nothing but the query, and leaves the catalog as it
\* was.
C6_Step(pr) ==
    (/\ req[pr].op \in {"unmount", "delete"}
     /\ pc[pr] \in {"unmount_lookup", "delete_lookup"}
     /\ Labeled(catalog, LabelOf(req[pr].mount_point)) = {})
        => /\ pc'[pr] = "done"
           /\ result'[pr] \in {"notfound", "tool", "decode"}
           /\ Has(log'[pr], "find") = (result'[pr] = "notfound")
           /\ \A i \in 1..Len(log'[pr]) :
                 log'[pr][i].exec => log'[pr][i].verb \in {"list", "plutil"}
           /\ catalog' = catalog
           /\ fs' = fs

C6_NotFound ==
    /\ [](\A pr \in Procs :
            (req[pr].op \in {"unmount", "delete"} /\ result[pr] = "notfound")
                => \A i \in 1..Len(log[pr]) : log[pr][i].verb \notin Mutating)
    /\ [][\A pr \in Procs : C6_Step(pr)]_vars

\* a forced unmount of PathB, for which there is no volume, ended not-found
\* while the volume of PathA is there
C6_Witness ==
    /\ req[Main].op = "unmount"
    /\ req[Main].force
    /\ req[Main].mount_point = PathB
    /\ Labeled(catalog, LabelOf(PathB)) = {}
    /\ Labeled(catalog, LabelOf(PathA)) # {}
    /\ result[Main] = "notfound"

\* C8: a mount asks for a new volume only when the catalog it queried holds
\* no volume with the path's label; run one after the other, the invocations
\* never leave two volumes with one label; and a mount of a path that an
\* earlier mount succeeded for mounts the device that mount used, without
\* making a volume.
C8_State ==
    /\ \A p \in TargetPaths : Cardinality(Labeled(catalog, LabelOf(p))) <= 1
    /\ \A pr \in Procs : req[pr].op = "mount" =>
          LET l == log[pr]
              p == req[pr].mount_point
          IN  /\ pc[pr] = "newvol_add" => Labeled(catalog, LabelOf(p)) = {}
              /\ \A i \in 1..Len(l) :
                    /\ l[i].verb = "addVolume" =>
                          /\ \E k \in 1..(i - 1) : l[k].verb = "find" /\ ~l[k].ok
                          /\ \A k \in 1..(i - 1) : l[k].verb = "find" => ~l[k].ok
                    /\ (l[i].verb = "mount_apfs" /\ pc[pr] # "done" /\ IsSome(made[p])) =>
                          /\ l[i].args.dev = Unwrap(made[p])
                          /\ ~Has(l, "addVolume")

C8_NoDuplicateVolume ==
    /\ []C8_State
    /\ [][\A pr \in Procs :
            (Added(pr) # <<>> /\ Added(pr)[1].verb = "addVolume")
                => Labeled(catalog, LabelOf(req[pr].mount_point)) = {}]_vars

\* a second mount of PathB: the first made the volume and succeeded, this
\* one has mounted the same device and made nothing
C8_Witness ==
    /\ req[Main].op = "mount"
    /\ req[Main].mount_point = PathB
    /\ pc[Main] = "mount_chown"
    /\ IsSome(made[PathB])
    /\ ~Has(log[Main], "addVolume")
    /\ \E i \in 1..Len(log[Main]) :
          /\ log[Main][i].verb = "mount_apfs"
          /\ log[Main][i].ok
          /\ log[Main][i].args.dev = Unwrap(made[PathB])
\* C11: decoding the well-formed listing of a catalog succeeds and gives one
\* record per container and one per volume, in the order of the listing, each
\* with the container reference, device identifier, label and mount point of
\* the listing and nothing else; a volume listed without a label or without a
\* mount point has none in its record.
C11_DecodeExact ==
    pure[1] = "parse_apfs_plist" =>
        LET cat == pure[2][1]
            listing == pure[2][2].tree[1][2]
            r == pure[3]
            Keys(dict) == {dict[k][1] : k \in 1..Len(dict)}
        IN  /\ r.ok
            /\ Len(r.val) = Len(cat)
            /\ Len(r.val) = Len(listing)
            /\ \A i \in 1..Len(cat) :
                  /\ DOMAIN r.val[i] = {"container_reference", "volumes"}
                  /\ r.val[i].container_reference = cat[i].container_reference
                  /\ Len(r.val[i].volumes) = Len(cat[i].volumes)
                  /\ \A j \in 1..Len(cat[i].volumes) :
                        LET got == r.val[i].volumes[j]
                            want == cat[i].volumes[j]
                            entry == listing[i][3][2][j]
                        IN  /\ DOMAIN got = {"device_identifier", "mount_point", "name"}
                            /\ got.device_identifier = want.device_identifier
                            /\ got.name = want.name
                            /\ got.mount_point = want.mount_point
                            /\ "Name" \notin Keys(entry) => got.name = <<>>
                            /\ "MountPoint" \notin Keys(entry) => got.mount_point = <<>>

\* a listing of two containers of two volumes each was decoded: its entries
\* carry keys outside the schema, the first volume is mounted and unlabeled,
\* the second labeled and not mounted
C11_Witness ==
    /\ pure[1] = "parse_apfs_plist"
    /\ Len(pure[2][1]) = 2
    /\ Len(pure[2][1][1].volumes) = 2
    /\ Len(pure[2][1][2].volumes) = 2
    /\ pure[2][2].tree[1][2][1][2][1] = "Fusion"
    /\ pure[2][2].tree[1][2][1][3][2][1][1][1] = "APFSVolumeUUID"
    /\ pure[2][1][1].volumes[1].name = None
    /\ pure[2][1][1].volumes[1].mount_point = Some(VolumesPath)
    /\ pure[2][1][1].volumes[2].name = Some(LabelA)
    /\ pure[2][1][1].volumes[2].mount_point = None
    /\ pure[3].ok
    /\ pure[3].val[1].volumes[1].name = None
    /\ pure[3].val[1].volumes[2].mount_point = None
\* C12: the catalog query fails with an error, and gives no list of
\* containers, whenever the listing command exits non-zero, its output is
\* not text, or its output is truncated or is not a listing of containers
\* (the conversion to JSON then prints nothing that can be decoded).
C12_QueryFails ==
    pure[1] = "apfs_list" =>
        LET output == pure[2][1]
            r == pure[3]
            Bad == \/ ~output.success
                   \/ ~output.stdout.utf8
                   \/ ~output.stdout.wellformed
                   \/ \A k \in 1..Len(output.stdout.tree) :
                          output.stdout.tree[k][1] # "Containers"
        IN  /\ Bad => (~r.ok /\ r.err # "none" /\ r # Ok(<<>>))
            /\ ~output.success => r.err = "failed to execute diskutil list"
            /\ ~Bad => r.ok

\* the listing command exited zero and printed a complete document without
\* the list of containers; the query failed
C12_Witness ==
    /\ pure[1] = "apfs_list"
    /\ pure[2][1].success
    /\ pure[2][1].stdout.wellformed
    /\ pure[2][1].stdout.tree # <<>>
    /\ pure[2][1].stdout.tree[1][1] = "Error"
    /\ ~pure[3].ok
    /\ pure[3].err = "missing field"
\* C13: a mount reaches the privileged primitive only with an effective uid
\* of 0: no mount stands before the privileged mount, or has panicked on its
\* assertion, with another effective uid, and a mount whose effective uid is
\* not 0 has made no volume and forced no unmount.
C13_PrivilegeVerified ==
    \A pr \in Procs : req[pr].op = "mount" =>
        /\ pc[pr] = "mount_exec" => geteuid(cred[pr]) = 0
        /\ result[pr] # "panic"
        /\ geteuid(cred[pr]) # 0 =>
              \A i \in 1..Len(log[pr]) : log[pr][i].verb \notin {"addVolume", "unmount"}
\* C14: in a mount of p whose lookup finds the volume labeled with p's label,
\* the forced unmount of that volume's device is called for exactly when the
\* volume is mounted and not at p, and is issued, before the privileged
\* mount, once the query of unmount_scratch has succeeded; when the volume is
\* not mounted or is mounted at p the mount goes on to the privileged mount
\* of that volume's device with no unmount and no new volume.
Elsewhere(vol, p) == vol.mount_point # <<>> /\ vol.mount_point # <<p>>
FirstFind(l) == l[CHOOSE i \in 1..Len(l) :
                    l[i].verb = "find" /\ \A k \in 1..(i - 1) : l[k].verb # "find"]

C14_State ==
    \A pr \in Procs : (req[pr].op = "mount" /\ Has(log[pr], "find")) =>
        LET l == log[pr]
            p == req[pr].mount_point
            first == FirstFind(l)
        IN  /\ \A i \in 1..Len(l) : l[i].verb = "unmount" =>
                  /\ first.ok
                  /\ Elsewhere(first.vol[1], p)
                  /\ l[i].args.force
                  /\ l[i].args.dev = first.vol[1].device_identifier
                  /\ \A k \in 1..(i - 1) : l[k].verb # "mount_apfs"
            /\ (first.ok /\ ~Elsewhere(first.vol[1], p)) =>
                  \A i \in 1..Len(l) :
                      /\ l[i].verb \notin {"unmount", "addVolume"}
                      /\ l[i].verb = "mount_apfs" =>
                            l[i].args.dev = first.vol[1].device_identifier
            /\ (first.ok /\ Elsewhere(first.vol[1], p)) =>
                  \A i \in 1..Len(l) : l[i].verb = "mount_apfs" =>
                      /\ l[i].args.dev = first.vol[1].device_identifier
                      /\ \E k \in 1..(i - 1) : l[k].verb = "unmount" /\ l[k].ok
                      /\ \A k \in 1..Len(l) : l[k].verb # "addVolume"

C14_Step(pr) ==
    LET p == req[pr].mount_point
        found == Added(pr) # <<>> /\ Added(pr)[1].verb = "find" /\ Added(pr)[1].ok
    IN  req[pr].op = "mount" =>
          /\ (pc[pr] = "mount_lookup" /\ found) =>
                /\ volume'[pr] = Added(pr)[1].vol
                /\ pc'[pr] = IF Elsewhere(Added(pr)[1].vol[1], p)
                              THEN "unmount_lookup" ELSE "mount_exec"
          /\ (pc[pr] = "unmount_lookup" /\ found) => pc'[pr] = "unmount_exec"
          /\ pc[pr] = "unmount_exec" =>
                /\ Added(pr) # <<>>
                /\ Added(pr)[1].verb = "unmount"
                /\ Added(pr)[1].args.force
                /\ Added(pr)[1].args.dev = volume[pr][1].device_identifier
          /\ (pc[pr] = "mount_exec" /\ cred[pr].euid = 0) =>
                /\ Added(pr) # <<>>
                /\ Added(pr)[1].verb = "mount_apfs"
                /\ Added(pr)[1].args.dev = volume[pr][1].device_identifier

C14_ForcedUnmountIff ==
    /\ []C14_State
    /\ [][\A pr \in Procs : C14_Step(pr)]_vars

\* the volume of PathA was found mounted under /Volumes: it was unmounted
\* with force and then mounted at PathA
C14_Witness ==
    /\ req[Main].op = "mount"
    /\ req[Main].mount_point = PathA
    /\ Has(log[Main], "find")
    /\ FirstFind(log[Main]).vol = Some(Volume(3, Some(VolumesPath), Some(LabelOf(PathA))))
    /\ \E i, j \in 1..Len(log[Main]) :
          /\ i < j
          /\ log[Main][i].verb = "unmount"
          /\ log[Main][i].ok
          /\ log[Main][i].args.force
          /\ log[Main][j].verb = "mount_apfs"
          /\ log[Main][j].ok
          /\ log[Main][j].args.dev = 3
\* C15: make_new_volume issues addVolume for the label with -nomount; when
\* the command exits non-zero the mount ends there with no further query;
\* when it exits zero the catalog is queried again and the label looked up:
\* if no volume carries it the mount ends with an error, otherwise the
\* device of the volume found is the one handed to the privileged mount.  A
\* mount whose volume creation failed never invokes the privileged mount.
C15_State ==
    \A pr \in Procs : req[pr].op = "mount" =>
        LET l == log[pr]
            p == req[pr].mount_point
        IN  \A i \in 1..Len(l) : l[i].verb = "addVolume" =>
              /\ l[i].args.nomount
              /\ l[i].args.name = LabelOf(p)
              /\ l[i].args.container = <<"d","i","s","k","1">>
              /\ \A k \in 1..Len(l) : l[k].verb = "addVolume" => k = i
              /\ ~l[i].ok =>
                    /\ i = Len(l)
                    /\ pc[pr] = "done"
                    /\ result[pr] = "tool"
              /\ (l[i].ok /\ pc[pr] # "newvol_find") =>
                    /\ i < Len(l)
                    /\ l[i + 1].verb = "list"
              /\ \A k \in (i + 1)..Len(l) :
                    /\ (l[k].verb = "find" /\ ~l[k].ok) =>
                          /\ k = Len(l)
                          /\ pc[pr] = "done"
                          /\ result[pr] = "notfound"
                    /\ l[k].verb = "mount_apfs" =>
                          \E f \in (i + 1)..(k - 1) :
                              /\ l[f].verb = "find"
                              /\ l[f].ok
                              /\ l[f].vol[1].name = <<LabelOf(p)>>
                              /\ l[k].args.dev = l[f].vol[1].device_identifier

C15_Step(pr) ==
    /\ pc[pr] = "newvol_add" =>
          /\ Added(pr) # <<>>
          /\ Added(pr)[1].verb = "addVolume"
          /\ pc'[pr] = IF Added(pr)[1].ok THEN "newvol_find" ELSE "done"
    /\ pc[pr] = "newvol_find" =>
          /\ Len(log'[pr]) > Len(log[pr])
          /\ log'[pr][Len(log[pr]) + 1].verb = "list"
          /\ pc'[pr] = "mount_exec" =>
                /\ Added(pr)[1].verb = "find"
                /\ Added(pr)[1].ok
                /\ volume'[pr] = Added(pr)[1].vol
                /\ Added(pr)[1].vol[1] \in Labeled(catalog, LabelOf(req[pr].mount_point))

C15_CreateVolume ==
    /\ []C15_State
    /\ [][\A pr \in Procs : C15_Step(pr)]_vars

\* addVolume exited zero, the query after it succeeded and the label was
\* not found: the mount ended with an error and mount_apfs was not run
C15_Witness ==
    /\ req[Main].op = "mount"
    /\ result[Main] = "notfound"
    /\ ~Has(log[Main], "mount_apfs")
    /\ \E i \in 1..Len(log[Main]) :
          /\ log[Main][i].verb = "addVolume"
          /\ log[Main][i].ok
          /\ log[Main][i].args.nomount
          /\ log[Main][i + 1].verb = "list"
          /\ log[Main][i + 1].ok
\* C16: in every operation the first command that exits non-zero is the last
\* thing the operation does: it ends with a failure at that step, runs no
\* command after it (the same one again included), changes nothing more, and
\* an operation that reports success has had no command fail.
C16_State ==
    \A pr \in Procs :
        LET l == log[pr]
        IN  /\ \A i \in 1..Len(l) : (l[i].exec /\ ~l[i].ok) =>
                  /\ i = Len(l)
                  /\ pc[pr] = "done"
                  /\ result[pr] \in {"tool", "decode"}
            /\ result[pr] = "ok" => \A i \in 1..Len(l) : l[i].exec => l[i].ok

C16_Step(pr) ==
    /\ (Added(pr) # <<>> /\ Added(pr)[1].exec /\ ~Added(pr)[1].ok) =>
          /\ pc'[pr] = "done"
          /\ result'[pr] \in {"tool", "decode"}
          /\ catalog' = catalog
          /\ fs' = fs
    /\ (pc[pr] = "done" /\ result[pr] # "ok") =>
          /\ pc'[pr] = "idle"
          /\ log'[pr] = <<>>
          /\ catalog' = catalog
          /\ fs' = fs

C17_State ==
    \A pr \in Procs : req[pr].op = "mount" =>
        LET l == log[pr]
            p == req[pr].mount_point
            At(dev, mp) == \E v \in VolumeSet(catalog) :
                              v.device_identifier = dev /\ v.mount_point = mp
        IN  \A i \in 1..Len(l) :
              /\ l[i].verb # "deleteVolume"
              /\ l[i].verb = "mount_apfs" =>
                    /\ l[i].args.target = p
                    /\ \A k \in 1..Len(l) : l[k].verb = "mount_apfs" => k = i
                    /\ \A k \in (i + 1)..Len(l) : l[k].verb \notin Mutating
                    /\ l[i].ok => At(l[i].args.dev, <<p>>)
              /\ (l[i].verb = "chown" /\ ~l[i].ok) =>
                    /\ i = Len(l)
                    /\ result[pr] = "io"
                    /\ l[i - 1].verb = "mount_apfs"
                    /\ At(l[i - 1].args.dev, <<p>>)
              /\ (l[i].verb = "unmount" /\ l[i].ok /\ result[pr] \notin {"none", "ok"}) =>
                    (At(l[i].args.dev, <<>>) \/ At(l[i].args.dev, <<p>>))
              /\ (l[i].verb = "find" /\ l[i].ok /\ Has(SubSeq(l, 1, i), "addVolume")) =>
                    l[i].vol[1].device_identifier \in DevSet(catalog)

C17_Step(pr) ==
    req[pr].op = "mount" =>
        /\ \A v \in VolumeSet(catalog) : v.device_identifier \in DevSet(catalog')
        /\ (Added(pr) # <<>> /\ ~Added(pr)[1].ok) => (catalog' = catalog /\ fs' = fs)

C17_NoRollback ==
    /\ []C17_State
    /\ [][\A pr \in Procs : C17_Step(pr)]_vars

\* a mount made its volume and mounted it, the chown failed: the mount has
\* ended with the failure and the volume is mounted at the path, owned by
\* root
C17_Witness ==
    /\ req[Main].op = "mount"
    /\ pc[Main] = "done"
    /\ result[Main] = "io"
    /\ Has(log[Main], "addVolume")
    /\ log[Main][Len(log[Main])].verb = "chown"
    /\ ~log[Main][Len(log[Main])].ok
    /\ \E v \in VolumeSet(catalog) :
          /\ v.name = Some(LabelOf(req[Main].mount_point))
          /\ v.mount_point = Some(req[Main].mount_point)
    /\ fs[req[Main].mount_point].mnt = Some(RootOwner)
\* C18: get_real_uid returns the real uid when it is not 0; when it is 0 it
\* returns 0 if SUDO_UID is not set, the number of SUDO_UID if its value is a
\* non-empty string of decimal digits only that fits a u32, and fails for
\* every other value of SUDO_UID: empty, signed, not a number, too large,
\* no text.
PurelyNumeric(s) ==
    /\ s # <<>>
    /\ \A i \in 1..Len(s) : s[i] \in {"0","1","2","3","4","5","6","7","8","9"}
RECURSIVE NumberOf(_)
NumberOf(s) ==
    IF s = <<>> THEN 0
    ELSE NumberOf(SubSeq(s, 1, Len(s) - 1)) * 10
         + (CHOOSE n \in 0..9 : <<"0","1","2","3","4","5","6","7","8","9">>[n + 1] = s[Len(s)])
\* the numbers of the inputs that fit: ten digits at most, up to 2147483647
FitsU32(s) == Len(s) <= 9 \/ s = <<"2","1","4","7","4","8","3","6","4","7">>
                          \/ s = <<"0","0","0","0","0","0","0","0","0","0","5">>

C18_RealIdentity ==
    pure[1] = "get_real_uid" =>
        LET cr == pure[2][1]
            r == pure[3]
        IN  /\ cr.uid # 0 => r = Ok(cr.uid)
            /\ (cr.uid = 0 /\ cr.sudo_uid = <<>>) => r = Ok(0)
            /\ (cr.uid = 0 /\ cr.sudo_uid # <<>>) =>
                  IF PurelyNumeric(cr.sudo_uid[1]) /\ FitsU32(cr.sudo_uid[1])
                  THEN r = Ok(NumberOf(cr.sudo_uid[1]))
                  ELSE ~r.ok /\ r.err # "none"
\* C19: the uid and gid a mount hands to mount_apfs, and the uid and gid of
\* its chown, are those of the owner of the path as read from the filesystem
\* at the start of the mount, whatever the ids of the process and the value
\* of SUDO_UID; the options of mount_apfs hold nobrowse, nodev and nosuid.
C19_State ==
    \A pr \in Procs : req[pr].op = "mount" =>
        \A i \in 1..Len(log[pr]) :
            LET e == log[pr][i]
            IN  /\ e.verb = "mount_apfs" =>
                      /\ metadata[pr] # <<>>
                      /\ e.args.u = metadata[pr][1].uid
                      /\ e.args.g = metadata[pr][1].gid
                      /\ e.args.target = req[pr].mount_point
                      /\ \A o \in {"nodev", "nosuid", "nobrowse"} :
                            \E k \in 1..Len(e.args.opts) : e.args.opts[k] = o
                /\ e.verb = "chown" =>
                      /\ e.uid = metadata[pr][1].uid
                      /\ e.gid = metadata[pr][1].gid
                      /\ e.path = req[pr].mount_point
                      /\ e.ok => Metadata(fs, e.path) = <<[uid |-> e.uid, gid |-> e.gid]>>

\* `metadata` is what the filesystem said at the first step, and stays so
C19_Step(pr) ==
    /\ (pc[pr] = "mount_check" /\ pc'[pr] = "mount_lookup") =>
          metadata'[pr] = Metadata(fs, req[pr].mount_point)
    /\ pc[pr] \notin {"mount_check", "done"} => metadata'[pr] = metadata[pr]

C19_OwnerIds ==
    /\ []C19_State
    /\ [][\A pr \in Procs : C19_Step(pr)]_vars

\* run by root under sudo for user 5: the path of owner 5, group 9 was
\* mounted with -u 5 -g 9 and given back to 5:9, while the process has uid
\* and gid 0
C19_Witness ==
    /\ req[Main].op = "mount"
    /\ cred[Main].uid = 0
    /\ cred[Main].gid = 0
    /\ cred[Main].sudo_uid = Some(<<"5">>)
    /\ result[Main] = "ok"
    /\ \E i \in 1..Len(log[Main]) :
          /\ log[Main][i].verb = "mount_apfs"
          /\ log[Main][i].args.u = 5
          /\ log[Main][i].args.g = 9
    /\ log[Main][Len(log[Main])].verb = "chown"
    /\ log[Main][Len(log[Main])].gid = 9
    /\ Metadata(fs, req[Main].mount_point) = Some(Owner(5, 9))
\* C20: list without --all prints exactly the volumes of the catalog whose
\* label is there and starts with "edenfs:", in the order of the catalog;
\* list --all prints every container with all its volumes; neither runs any
\* command but the catalog query, and none with the privileged primitive.
IsEden(vol) ==
    /\ vol.name # <<>>
    /\ Len(vol.name[1]) >= 7
    /\ SubSeq(vol.name[1], 1, 7) = <<"e","d","e","n","f","s",":">>
EdenAt(cat) ==
    {m \in (1..Len(cat)) \X (1..MaxVols) :
        m[2] <= Len(cat[m[1]].volumes) /\ IsEden(cat[m[1]].volumes[m[2]])}
RankOf(cat, m) ==
    Cardinality({n \in EdenAt(cat) : n[1] < m[1] \/ (n[1] = m[1] /\ n[2] <= m[2])})

C20_State ==
    \A pr \in Procs : req[pr].op = "list" =>
        LET l == log[pr]
        IN  /\ \A i \in 1..Len(l) :
                  /\ l[i].verb \in {"list", "plutil", "print"}
                  /\ l[i].exec => l[i].path # MOUNT_APFS
                  /\ l[i].verb = "print" =>
                        /\ i = Len(l)
                        /\ result[pr] = "ok"
                        /\ l[i].all = req[pr].all
                        /\ l[i].all => l[i].out = catalog
                        /\ ~l[i].all =>
                              /\ Len(l[i].out) = Cardinality(EdenAt(catalog))
                              /\ \A m \in EdenAt(catalog) :
                                    l[i].out[RankOf(catalog, m)] = catalog[m[1]].volumes[m[2]]
            /\ result[pr] = "ok" => Has(l, "print")

C20_Step(pr) ==
    pc[pr] = "list" => (catalog' = catalog /\ fs' = fs /\ pc'[pr] = "done")

C20_ListFilter ==
    /\ []C20_State
    /\ [][\A pr \in Procs : C20_Step(pr)]_vars

\* the catalog holds the volume of PathB in the first container and the
\* volume of PathA in the second, next to an unlabeled volume and a volume
\* with a label of its own: list printed the two, PathB's first
C20_Witness ==
    /\ req[Main].op = "list"
    /\ ~req[Main].all
    /\ result[Main] = "ok"
    /\ \E v \in VolumeSet(catalog) : v.name = None
    /\ \E v \in VolumeSet(catalog) : v.name = Some(<<"M">>)
    /\ Len(log[Main][Len(log[Main])].out) = 2
    /\ log[Main][Len(log[Main])].out[1].name = Some(LabelOf(PathB))
    /\ log[Main][Len(log[Main])].out[2].name = Some(LabelOf(PathA))
\* C21: a delete that succeeds has issued one mutating command only, the
\* deleteVolume of the device of the volume labeled with the path's label,
\* and no unmount, also when the volume was mounted; an unmount that
\* succeeds has issued one unmount of that device only, forced exactly when
\* force was asked for, and the volume is still in the catalog.
C21_State ==
    \A pr \in Procs : (req[pr].op \in {"unmount", "delete"} /\ result[pr] = "ok") =>
        LET l == log[pr]
            verb == IF req[pr].op = "delete" THEN "deleteVolume" ELSE "unmount"
            M == {i \in 1..Len(l) : l[i].verb \in Mutating}
        IN  /\ Cardinality(M) = 1
            /\ \A i \in M :
                  /\ i = Len(l)
                  /\ l[i].verb = verb
                  /\ l[i].ok
                  /\ l[i].vol # <<>>
                  /\ l[i].vol[1].name = <<LabelOf(req[pr].mount_point)>>
                  /\ l[i].args.dev = l[i].vol[1].device_identifier
                  /\ verb = "unmount" =>
                        /\ l[i].args.force = req[pr].force
                        /\ \E v \in VolumeSet(catalog) :
                              /\ v.device_identifier = l[i].args.dev
                              /\ v.name = l[i].vol[1].name
                              /\ v.mount_point = <<>>
                  /\ verb = "deleteVolume" =>
                        /\ l[i].args.dev \notin DevSet(catalog)
                        /\ Labeled(catalog, LabelOf(req[pr].mount_point)) = {}

C21_Step(pr) ==
    /\ (pc[pr] = "delete_exec" /\ result'[pr] = "ok") =>
          /\ VolumeSet(catalog') = VolumeSet(catalog) \ {target[pr][1]}
          /\ target[pr][1] \in VolumeSet(catalog)
    /\ (pc[pr] = "unmount_exec" /\ req[pr].op = "unmount") =>
          DevSet(catalog') = DevSet(catalog)

C21_SingleAction ==
    /\ []C21_State
    /\ [][\A pr \in Procs : C21_Step(pr)]_vars

\* the volume of PathA was mounted at PathA when it was deleted: the one
\* command was deleteVolume, and the path is not mounted any more
C21_Witness ==
    /\ req[Main].op = "delete"
    /\ req[Main].mount_point = PathA
    /\ result[Main] = "ok"
    /\ target[Main] # <<>>
    /\ target[Main][1].mount_point = Some(PathA)
    /\ ~Has(log[Main], "unmount")
    /\ log[Main][Len(log[Main])].verb = "deleteVolume"
    /\ ~MountedAt(catalog, PathA)
\* C22: two mounts of one path that run at once can both make a volume.
\* Each asks for a new volume only after its own lookup found none, and it
\* asks without looking again: when the other has made the volume in between,
\* the catalog ends up with two volumes of one label.  Two volumes of one
\* label come about in no other way: both invocations looked the label up
\* before either had made its volume, and both then issued addVolume.
Adders(p) ==
    {pr \in Procs :
        /\ req[pr].op = "mount"
        /\ req[pr].mount_point = p
        /\ \E i \in 1..Len(log[pr]) :
              /\ log[pr][i].verb = "addVolume"
              /\ log[pr][i].ok
              /\ log[pr][i].args.name = LabelOf(p)}
LookedAndMissed(pr) ==
    /\ \E k \in 1..Len(log[pr]) : log[pr][k].verb = "find" /\ ~log[pr][k].ok
    /\ \A k \in 1..Len(log[pr]) :
          (log[pr][k].verb = "find" /\ log[pr][k].ok) =>
              \E i \in 1..(k - 1) : log[pr][i].verb = "addVolume"

C22_State ==
    /\ \A p \in TargetPaths :
          /\ Cardinality(Labeled(catalog, LabelOf(p))) <= 2
          /\ Cardinality(Labeled(catalog, LabelOf(p))) = 2 => Adders(p) = Procs
          /\ \A pr \in Adders(p) : LookedAndMissed(pr)
    /\ \A pr \in Procs :
          (pc[pr] = "newvol_add" /\ Labeled(catalog, LabelOf(req[pr].mount_point)) # {}) =>
              /\ LookedAndMissed(pr)
              /\ \E other \in Adders(req[pr].mount_point) : other # pr

C22_Step(pr) ==
    (pc[pr] = "newvol_add" /\ pc'[pr] # pc[pr]) =>
        /\ Added(pr) # <<>>
        /\ Added(pr)[1].verb = "addVolume"
        /\ Added(pr)[1].args.name = LabelOf(req[pr].mount_point)
        /\ (Added(pr)[1].ok /\ catalog' # catalog) =>
              Cardinality(Labeled(catalog', LabelOf(req[pr].mount_point)))
                  = Cardinality(Labeled(catalog, LabelOf(req[pr].mount_point))) + 1

C22_MountRace ==
    /\ []C22_State
    /\ [][\A pr \in Procs : C22_Step(pr)]_vars

\* both invocations mount PathB: each has looked the label up and found no
\* volume, each has then had addVolume succeed, and the catalog holds two
\* volumes labeled edenfs:/b
C22_Witness ==
    /\ \A pr \in Procs :
          /\ req[pr].op = "mount"
          /\ req[pr].mount_point = PathB
          /\ LookedAndMissed(pr)
    /\ Adders(PathB) = Procs
    /\ Cardinality(Labeled(catalog, LabelOf(PathB))) = 2
    /\ \E v, w \in Labeled(catalog, LabelOf(PathB)) :
          v.device_identifier # w.device_identifier

====
